---- MODULE Spec2Model ----
(***************************************************************************)
(* Model of src/run/__init__.py: class run, a str subclass whose __new__   *)
(* launches one subprocess.Popen per command and returns the object made   *)
(* for the last command, and whose properties status / returncode /        *)
(* stdout / stderr / check_returncode read the Popen handle lazily.        *)
(*                                                                         *)
(* A Python str is a sequence of one-character strings.  An optional       *)
(* value (None or a value) is a record [some, val].                        *)
(***************************************************************************)
EXTENDS Integers, Sequences, FiniteSets, TLC

\* ------------------------------------------------------------------ bounds
MaxStages == 2      \* longest argument list given to run(...)
MaxCalls  == 2      \* result-API calls made after construction
MaxLines  == 1      \* lines on the caller's own standard input

\* ------------------------------------------------------------- Python data
NoneText == [some |-> FALSE, val |-> <<>>]
SomeText(t) == [some |-> TRUE, val |-> t]
NoneInt == [some |-> FALSE, val |-> 0]
SomeInt(n) == [some |-> TRUE, val |-> n]

\* str(None) is the four characters N o n e; str(s) of a str is s.
StrNone == <<"N", "o", "n", "e">>
PyStr(x) == IF x.some THEN x.val ELSE StrNone

\* str(n) for an int n >= 0: its decimal digits.
Digit(d) == <<"0", "1", "2", "3", "4", "5", "6", "7", "8", "9">>[d + 1]
RECURSIVE IntStr(_)
IntStr(n) == IF n < 10 THEN <<Digit(n)>> ELSE IntStr(n \div 10) \o <<Digit(n % 10)>>

\* ------------------------------------------------------ command arguments
\* A command is a str (isStr, text) or an already split argument list
\* (~isStr, argv); the unused field is empty.
StrCmd(t) == [isStr |-> TRUE, text |-> t, argv |-> <<>>]
ListCmd(a) == [isStr |-> FALSE, text |-> <<>>, argv |-> a]

\* shlex.split in POSIX mode over the characters used here: blanks separate
\* words, '...' quotes, and an unclosed quote raises ValueError.
RECURSIVE Lex(_, _, _, _, _, _)
Lex(s, i, tok, inTok, inQuote, acc) ==
    IF i > Len(s)
    THEN IF inQuote THEN [ok |-> FALSE, toks |-> <<>>]
         ELSE [ok |-> TRUE, toks |-> IF inTok THEN Append(acc, tok) ELSE acc]
    ELSE IF inQuote
         THEN IF s[i] = "'" THEN Lex(s, i + 1, tok, TRUE, FALSE, acc)
              ELSE Lex(s, i + 1, Append(tok, s[i]), TRUE, TRUE, acc)
         ELSE IF s[i] = "'" THEN Lex(s, i + 1, tok, TRUE, TRUE, acc)
              ELSE IF s[i] = " "
                   THEN IF inTok THEN Lex(s, i + 1, <<>>, FALSE, FALSE, Append(acc, tok))
                        ELSE Lex(s, i + 1, <<>>, FALSE, FALSE, acc)
                   ELSE Lex(s, i + 1, Append(tok, s[i]), TRUE, FALSE, acc)
shlex_split(s) == Lex(s, 1, <<>>, FALSE, FALSE, <<>>)

\* The programs found on the PATH of the modelled host, by argv[0]:
\*   p ARGS..  prints each argument on a line of its own and exits 0
\*   w l       counts the lines of its standard input, prints the count, exits 0
\*   f         prints nothing and exits with a non-zero code
Programs == {<<"p">>, <<"w">>, <<"f">>}
FailCodes == {1, 2}

\* The commands a caller passes in this model.
Commands ==
    { ListCmd(<< <<"p">>, <<"a">>, <<"b">> >>),
      StrCmd(<<"w", " ", "l">>),
      StrCmd(<<"f">>),
      StrCmd(<<"x">>),
      StrCmd(<<"p", " ", "'", "a">>) }

\* ------------------------------------------------------------------ streams
\* What a Popen stdin= argument, or a Popen .stdout attribute, can be.
PIPE == [kind |-> "PIPE", of |-> 0]            \* subprocess.PIPE
NoStream == [kind |-> "None", of |-> 0]        \* None: inherit the caller's
CallerStream == [kind |-> "stream", of |-> 0]  \* a stream the caller passed
StdoutOf(k) == [kind |-> "stdout", of |-> k]   \* read end of process k's stdout

\* ------------------------------------------------------------------ errors
NoCmd == StrCmd(<<>>)
NoError == [type |-> "none", msg |-> "", returncode |-> NoneInt, cmd |-> NoCmd]
Error(t, m) == [type |-> t, msg |-> m, returncode |-> NoneInt, cmd |-> NoCmd]
CalledProcessError(rc, c) ==
    [type |-> "CalledProcessError", msg |-> "", returncode |-> rc, cmd |-> c]

\* ---------------------------------------------------------------- processes
\* A subprocess.Popen object together with the OS process it started.
\*   stdin      the stdin= argument it was started with
\*   stdinOpen  the caller still holds the open write end of a stdin pipe
\*   outPipe, errPipe   stdout / stderr were started as subprocess.PIPE
\*   state      "running" or "exited";  code: the exit code once exited
\*   nread      lines the program has read
\*   wrote, wroteErr   what it wrote to its standard output / standard error
\*   pid        the identifier the OS gave it
\*   returncode the Popen attribute: None until wait() has collected the exit
NewProc(argv, stdin_, outPipe, errPipe) ==
    [argv |-> argv, stdin |-> stdin_, stdinOpen |-> (stdin_ = PIPE),
     outPipe |-> outPipe, errPipe |-> errPipe,
     pid |-> 0, state |-> "running", code |-> 0, nread |-> 0,
     wrote |-> <<>>, wroteErr |-> <<>>, returncode |-> NoneInt]

\* subprocess.Popen(argv, stdin=.., stdout=.., stderr=..): starts the program
\* or raises OSError when argv[0] is no program of the host.
Popen(argv, stdin_, outPipe, errPipe) ==
    IF argv[1] \in Programs
    THEN [err |-> NoError, proc |-> NewProc(argv, stdin_, outPipe, errPipe)]
    ELSE [err |-> Error("OSError", "No such file or directory"),
          proc |-> NewProc(argv, stdin_, outPipe, errPipe)]

\* Variant: capture_output silently replaces the caller's stdout / stderr.
create_process_overriding(command, stdin_, capture_output, kwargs) ==
    LET extra_args == IF capture_output THEN kwargs \cup {"stdout", "stderr"} ELSE kwargs
        split == IF command.isStr THEN shlex_split(command.text)
                 ELSE [ok |-> TRUE, toks |-> command.argv]
    IN  IF ~split.ok
        THEN [err |-> Error("ValueError", "No closing quotation"),
              proc |-> NewProc(<<>>, stdin_, FALSE, FALSE)]
        ELSE Popen(split.toks, stdin_, "stdout" \in extra_args, "stderr" \in extra_args)

\* run.create_process.  kwargs is the set of extra keyword names given, among
\* "stdout" and "stderr" (each with the value subprocess.PIPE).
create_process(command, stdin_, capture_output, kwargs) ==
    LET extra_args == IF capture_output THEN kwargs \cup {"stdout", "stderr"} ELSE kwargs
        split == IF command.isStr THEN shlex_split(command.text)
                 ELSE [ok |-> TRUE, toks |-> command.argv]
    IN  IF capture_output /\ ("stdout" \in kwargs \/ "stderr" \in kwargs)
        THEN [err |-> Error("ValueError", "capture_output will override stdout/stderr kwargs"),
              proc |-> NewProc(<<>>, stdin_, FALSE, FALSE)]
        ELSE IF ~split.ok
        THEN [err |-> Error("ValueError", "No closing quotation"),
              proc |-> NewProc(<<>>, stdin_, FALSE, FALSE)]
        ELSE Popen(split.toks, stdin_, "stdout" \in extra_args, "stderr" \in extra_args)

\* process.stdout of the k-th Popen object: a readable pipe only when stdout
\* was started as a pipe, None otherwise.
ProcessStdout(proc, k) == IF proc.outPipe THEN StdoutOf(k) ELSE NoStream

\* What program p writes to its standard output over its whole run.
RECURSIVE LinesOf(_)
LinesOf(words) ==
    IF Len(words) = 0 THEN <<>> ELSE words[1] \o <<"\n">> \o LinesOf(Tail(words))
NumLines(text) == Cardinality({j \in 1..Len(text) : text[j] = "\n"})

VARIABLES
    args,       \* the positional arguments of run(...)
    direct,     \* the arguments of a direct call of run.create_process(...)
    stdinOpt,   \* kwargs['stdin']: "absent" or "stream"
    pc,         \* "new": inside __new__; "ready": constructed, between calls;
                \* "comm": blocked inside communicate(); "raised": __new__ raised
    stdin,      \* local of __new__
    obj,        \* local of __new__: index of the last object made, 0 = unbound
    lists,      \* the Python lists: lists[1] is the local chain, the others copies
    procs,      \* the Popen objects, in the order they were started
    stages,     \* the run objects, in the order they were made
    _status,    \* per run object: [has, val], the _status attribute
    result,     \* the object __new__ returned, 0 = none
    inLeft,     \* lines still unread on the caller's own standard input
    inEnds,     \* whether that input ends (a file, a closed pipe) or not (a tty)
    cur,        \* the property being evaluated while pc = "comm"
    ret,        \* the last completed call of the result API
    raised,     \* the exception the last operation raised, or NoError
    calls,      \* result-API calls started
    commCalls,  \* per run object: communicate() invocations on its process
    statusComm, \* per run object: those made by status / returncode reads
    first       \* per run object: the first _status stored, and stdout / stderr
                \* as the first read of either would have returned them

vars == <<args, direct, stdinOpt, pc, stdin, obj, lists, procs, stages, _status, result,
          inLeft, inEnds, cur, ret, raised, calls, commCalls, statusComm, first>>

\* ------------------------------------------------------------ initial state
\* The state on entry to the loop of __new__ (line 154): chain = [] and
\* stdin = kwargs.get('stdin', subprocess.PIPE).
ArgLists == UNION {[1..n -> Commands] : n \in 0..MaxStages}
NoCall == [op |-> "none", stage |-> 0]
NoRet == [op |-> "none", stage |-> 0, int |-> NoneInt, text |-> <<>>]
NoFirst == [status |-> [has |-> FALSE, val |-> NoneInt],
            output |-> [has |-> FALSE, out |-> <<>>, err |-> <<>>]]

\* The common part of the initial states: nothing started, nothing called.
InitRest ==
    /\ obj = 0
    /\ lists = << <<>> >>
    /\ procs = <<>>
    /\ stages = <<>>
    /\ _status = <<>>
    /\ result = 0
    /\ inLeft = MaxLines
    /\ inEnds \in BOOLEAN
    /\ cur = NoCall
    /\ ret = NoRet
    /\ raised = NoError
    /\ calls = 0
    /\ commCalls = <<>>
    /\ statusComm = <<>>
    /\ first = <<>>

\* Variant: without a stdin option the first process inherits the caller's.
kwargs_get_stdin_inherit(opt) == IF opt = "absent" THEN NoStream ELSE CallerStream

\* kwargs.get('stdin', subprocess.PIPE)  (line 152)
kwargs_get_stdin(opt) == IF opt = "absent" THEN PIPE ELSE CallerStream

NoDirect == [command |-> NoCmd, stdin |-> NoStream, capture_output |-> FALSE,
             kwargs |-> {}]

Init ==
    /\ args \in ArgLists
    /\ direct = NoDirect
    /\ stdinOpt \in {"absent", "stream"}
    /\ pc = "new"
    /\ stdin = kwargs_get_stdin(stdinOpt)
    /\ InitRest

\* ------------------------------------------------------------- construction
\* Variant: obj.chain = chain, the one list shared by every object, so each
\* object's chain shows every append.
chain_append_shared(ls, o) ==
    [j \in 1..(Len(ls) + 1) |-> Append(ls[1], o)]

\* Variant: the copy is taken before the append.
chain_copy_then_append(ls, o) ==
    [Append(ls, ls[1]) EXCEPT ![1] = Append(ls[1], o)]

\* chain.append(obj); obj.chain = chain[:]  -- the lists after both statements
\* and the index of the fresh copy.
chain_append_copy(ls, o) ==
    LET appended == [ls EXCEPT ![1] = Append(ls[1], o)]
    IN  Append(appended, appended[1])

\* Variant: __new__ stores process.returncode as _status right away.
new_object_status_eager == [has |-> TRUE, val |-> NoneInt]

\* The _status of an object just made (lines 160-164): the attribute is not set.
new_object_status == [has |-> FALSE, val |-> NoneInt]

\* Variant: an exception handler terminates and collects what was started.
on_launch_error_kill(ps) ==
    [j \in 1..Len(ps) |->
        [ps[j] EXCEPT !.state = "exited", !.code = 0 - 15, !.stdinOpen = FALSE,
                      !.returncode = SomeInt(0 - 15)]]

\* The Popen objects already started when create_process raises: the call at
\* lines 155-156 is inside no try statement, so nothing is done to them.
on_launch_error(ps) == ps

\* One iteration of the loop of __new__ (lines 154-168).
LaunchStage ==
    /\ pc = "new"
    /\ Len(stages) < Len(args)
    /\ LET command == args[Len(stages) + 1]
           made == create_process(command, stdin, FALSE, {})
           k == Len(procs) + 1
           process == [made.proc EXCEPT !.pid = k]
           o == Len(stages) + 1
       IN  IF made.err # NoError
           THEN /\ pc' = "raised"
                /\ raised' = made.err
                /\ procs' = on_launch_error(procs)
                /\ UNCHANGED <<stdin, obj, lists, stages, _status,
                               commCalls, statusComm, first>>
           ELSE /\ procs' = Append(procs, process)
                /\ stdin' = ProcessStdout(process, k)
                /\ lists' = chain_append_copy(lists, o)
                /\ stages' = Append(stages, [command |-> command, process |-> k,
                                             pid |-> process.pid,
                                             chain |-> Len(lists) + 1])
                /\ obj' = o
                /\ _status' = Append(_status, new_object_status)
                /\ commCalls' = Append(commCalls, 0)
                /\ statusComm' = Append(statusComm, 0)
                /\ first' = Append(first, NoFirst)
                /\ UNCHANGED <<pc, raised>>
    /\ UNCHANGED <<args, direct, stdinOpt, result, inLeft, inEnds, cur, ret, calls>>

\* Variant: obj starts as None, so an empty call returns it without an error.
new_return_unchecked(o) == [err |-> NoError, value |-> o]

\* "return obj" (line 170): obj is unbound when the loop body never ran.
new_return(o) ==
    IF o = 0
    THEN [err |-> Error("UnboundLocalError", "local variable 'obj' referenced before assignment"),
          value |-> 0]
    ELSE [err |-> NoError, value |-> o]

NewReturn ==
    /\ pc = "new"
    /\ Len(stages) = Len(args)
    /\ LET r == new_return(obj)
       IN  /\ raised' = r.err
           /\ result' = r.value
           /\ pc' = IF r.err # NoError THEN "raised" ELSE "ready"
    /\ UNCHANGED <<args, direct, stdinOpt, stdin, obj, lists, procs, stages, _status,
                   inLeft, inEnds, cur, ret, calls, commCalls, statusComm, first>>

\* --------------------------------------------------- the started processes
IsProg(k, name) == procs[k].argv[1] = name

\* The lines ready on the standard input of process k.
StdinLines(k) ==
    CASE procs[k].stdin.kind = "PIPE" -> 0
      [] procs[k].stdin.kind = "stdout" ->
            NumLines(procs[procs[k].stdin.of].wrote) - procs[k].nread
      [] OTHER -> inLeft

\* Process k sees end-of-file on its standard input.
StdinEOF(k) ==
    CASE procs[k].stdin.kind = "PIPE" -> ~procs[k].stdinOpen
      [] procs[k].stdin.kind = "stdout" ->
            /\ procs[procs[k].stdin.of].state = "exited"
            /\ NumLines(procs[procs[k].stdin.of].wrote) = procs[k].nread
      [] OTHER -> inLeft = 0 /\ inEnds

\* The line counter reads what is ready on its standard input (one read()
\* takes all of a short input).
ProcRead(k) ==
    /\ k \in 1..Len(procs)
    /\ procs[k].state = "running"
    /\ IsProg(k, <<"w">>)
    /\ StdinLines(k) > 0
    /\ procs' = [procs EXCEPT ![k].nread = @ + StdinLines(k)]
    /\ inLeft' = IF procs[k].stdin.kind \in {"None", "stream"} THEN 0 ELSE inLeft
    /\ UNCHANGED <<args, direct, stdinOpt, pc, stdin, obj, lists, stages, _status, result,
                   inEnds, cur, ret, raised, calls, commCalls, statusComm, first>>

\* Process k writes its output and exits.
ProcExit(k) ==
    /\ k \in 1..Len(procs)
    /\ procs[k].state = "running"
    /\ \/ /\ IsProg(k, <<"p">>)
          /\ procs' = [procs EXCEPT ![k].state = "exited", ![k].code = 0,
                                    ![k].wrote = LinesOf(Tail(procs[k].argv))]
       \/ /\ IsProg(k, <<"w">>)
          /\ StdinEOF(k)
          /\ procs' = [procs EXCEPT ![k].state = "exited", ![k].code = 0,
                                    ![k].wrote = IntStr(procs[k].nread) \o <<"\n">>]
       \/ /\ IsProg(k, <<"f">>)
          /\ \E c \in FailCodes :
                procs' = [procs EXCEPT ![k].state = "exited", ![k].code = c,
                                       ![k].wroteErr = <<"e", "\n">>]
    /\ UNCHANGED <<args, direct, stdinOpt, pc, stdin, obj, lists, stages, _status, result,
                   inLeft, inEnds, cur, ret, raised, calls, commCalls, statusComm, first>>

\* ------------------------------------------------------------ Popen methods
\* Popen.communicate() with no input, first half: the caller's end of a stdin
\* pipe is closed (closing it again is harmless); then it waits.
communicate_begin(proc) == [proc EXCEPT !.stdinOpen = FALSE]

\* Popen.wait(): returns once the process has exited and records its exit code.
WaitDone(proc) == proc.state = "exited"
wait(proc) == [proc EXCEPT !.returncode = SomeInt(proc.code)]

\* communicate()[0] and communicate()[1]: the text read from a stream that was
\* started as a pipe, None for a stream that was not.
communicate_out(proc) == IF proc.outPipe THEN SomeText(proc.wrote) ELSE NoneText
communicate_err(proc) == IF proc.errPipe THEN SomeText(proc.wroteErr) ELSE NoneText

\* ------------------------------------------------------------ the result API
\* The objects reachable from the returned one: the elements of its chain.
Reachable == IF result = 0 THEN {} ELSE {lists[stages[result].chain][j] :
                                          j \in 1..Len(lists[stages[result].chain])}

\* Variant: the Popen object of the first object of the chain is used.
self_process_first(s) == stages[lists[stages[s].chain][1]].process

\* self.process  (lines 186, 193, 197): the Popen object of this object.
self_process(s) == stages[s].process

\* Variant: status never finds a cached value.
status_never_cached(s) == FALSE

\* hasattr(self, '_status')  (line 185)
status_cached(s) == _status[s].has

\* Variant: returncode is read without communicate() having collected it.
status_fresh_unwaited(before, after) == before.returncode

\* self._status = self.process.returncode, after communicate()  (lines 186-187);
\* before / after are the Popen object on entry to and on return from communicate().
status_fresh(before, after) == after.returncode

\* std_output(self.process.communicate()[0])  (line 193), [1] (line 197)
stdout_value(proc) == PyStr(communicate_out(proc))
stderr_value(proc) == PyStr(communicate_err(proc))

\* Variant: only exit codes above 1 count as failure.
check_raises_above_one(rc) == rc.val > 1

\* check_returncode (lines 172-177), given the value self.returncode returned
check_raises(rc) == rc # SomeInt(0)
check_error(s, rc) ==
    IF check_raises(rc) THEN CalledProcessError(rc, stages[s].command) ELSE NoError

\* Variant: status itself raises on a non-zero exit code.
status_error_checked(s, rc) == check_error(s, rc)

\* What reading status / returncode raises: nothing (lines 179-189).
status_error(s, rc) == NoError

\* History: what stdout and stderr gave when one of them was first read.
FirstOutput(s, proc) ==
    IF first[s].output.has THEN first
    ELSE [first EXCEPT ![s].output = [has |-> TRUE, out |-> stdout_value(proc),
                                      err |-> stderr_value(proc)]]

\* Variant: _status is set on the class, so every object sees it.
store_status_shared(s, st) == [t \in DOMAIN _status |-> st]

\* self._status = ...  (line 187): the attribute of this object alone.
store_status(s, st) == [_status EXCEPT ![s] = st]

\* The call op on object s returns (or raises); st is the _status it leaves.
Complete(op, s, st, proc) ==
    /\ pc' = "ready"
    /\ cur' = NoCall
    /\ _status' = IF op \in {"stdout", "stderr"} THEN _status ELSE store_status(s, st)
    /\ CASE op = "status" ->
              /\ ret' = [op |-> op, stage |-> s, int |-> st.val, text |-> <<>>]
              /\ raised' = status_error(s, st.val)
              /\ first' = IF first[s].status.has THEN first
                          ELSE [first EXCEPT ![s].status = [has |-> TRUE, val |-> st.val]]
         [] op = "check" ->
              /\ ret' = [op |-> op, stage |-> s, int |-> st.val, text |-> <<>>]
              /\ raised' = check_error(s, st.val)
              /\ first' = IF first[s].status.has THEN first
                          ELSE [first EXCEPT ![s].status = [has |-> TRUE, val |-> st.val]]
         [] op = "stdout" ->
              /\ ret' = [op |-> op, stage |-> s, int |-> NoneInt, text |-> stdout_value(proc)]
              /\ raised' = NoError
              /\ first' = FirstOutput(s, proc)
         [] op = "stderr" ->
              /\ ret' = [op |-> op, stage |-> s, int |-> NoneInt, text |-> stderr_value(proc)]
              /\ raised' = NoError
              /\ first' = FirstOutput(s, proc)

\* The call enters self.process.communicate() and blocks there.
EnterCommunicate(op, s) ==
    /\ pc' = "comm"
    /\ cur' = [op |-> op, stage |-> s]
    /\ procs' = [procs EXCEPT ![self_process(s)] = communicate_begin(@)]
    /\ commCalls' = [commCalls EXCEPT ![s] = @ + 1]
    /\ statusComm' = [statusComm EXCEPT ![s] = IF op \in {"stdout", "stderr"} THEN @ ELSE @ + 1]
    /\ UNCHANGED <<_status, ret, raised, first>>

\* status, and returncode / check_returncode which read it (lines 172-189).
StatusRead(op, s) ==
    /\ pc = "ready"
    /\ calls < MaxCalls
    /\ s \in Reachable
    /\ calls' = calls + 1
    /\ IF status_cached(s)
       THEN /\ Complete(op, s, _status[s], procs[self_process(s)])
            /\ UNCHANGED <<procs, commCalls, statusComm>>
       ELSE EnterCommunicate(op, s)
    /\ UNCHANGED <<args, direct, stdinOpt, stdin, obj, lists, stages, result, inLeft, inEnds>>

status(s) == StatusRead("status", s)
\* returncode is "return self.status" (line 181)
returncode(s) == status(s)
check_returncode(s) == StatusRead("check", s)

\* stdout and stderr (lines 191-197): each read calls communicate().
OutputRead(op, s) ==
    /\ pc = "ready"
    /\ calls < MaxCalls
    /\ s \in Reachable
    /\ calls' = calls + 1
    /\ EnterCommunicate(op, s)
    /\ UNCHANGED <<args, direct, stdinOpt, stdin, obj, lists, stages, result, inLeft, inEnds>>

stdout(s) == OutputRead("stdout", s)
stderr(s) == OutputRead("stderr", s)

RECURSIVE JoinWith(_, _)
\* sep.join(parts)
JoinWith(sep, parts) ==
    IF Len(parts) = 0 THEN <<>>
    ELSE IF Len(parts) = 1 THEN parts[1]
    ELSE parts[1] \o sep \o JoinWith(sep, Tail(parts))

\* Variant: the separator has no blanks around the bar.
repr_text_tight(s) ==
    JoinWith(<<"|">>,
             [j \in 1..Len(lists[stages[s].chain]) |->
                 LET e == stages[lists[stages[s].chain][j]]
                 IN  IF e.command.isStr THEN e.command.text
                     ELSE JoinWith(<<" ">>, e.command.argv)])

\* The value of __repr__ (lines 199-203).
repr_text(s) ==
    JoinWith(<<" ", "|", " ">>,
             [j \in 1..Len(lists[stages[s].chain]) |->
                 LET e == stages[lists[stages[s].chain][j]]
                 IN  IF e.command.isStr THEN e.command.text
                     ELSE JoinWith(<<" ">>, e.command.argv)])

\* __repr__: computed from the chain alone.
repr(s) ==
    /\ pc = "ready"
    /\ calls < MaxCalls
    /\ s \in Reachable
    /\ calls' = calls + 1
    /\ ret' = [op |-> "repr", stage |-> s, int |-> NoneInt, text |-> repr_text(s)]
    /\ raised' = NoError
    /\ UNCHANGED <<args, direct, stdinOpt, pc, stdin, obj, lists, procs, stages, _status,
                   result, inLeft, inEnds, cur, commCalls, statusComm, first>>

\* communicate() returns to the property that called it: the process has
\* exited, wait() has recorded its exit code, and the property finishes.
CommunicateReturn ==
    /\ pc = "comm"
    /\ LET s == cur.stage
           k == self_process(s)
           before == procs[k]
           after == wait(before)
       IN  /\ WaitDone(before)
           /\ procs' = [procs EXCEPT ![k] = after]
           /\ Complete(cur.op, s,
                       IF cur.op \in {"stdout", "stderr"} THEN _status[s]
                       ELSE [has |-> TRUE, val |-> status_fresh(before, after)],
                       after)
    /\ UNCHANGED <<args, direct, stdinOpt, stdin, obj, lists, stages, result, inLeft, inEnds,
                   calls, commCalls, statusComm>>

Next ==
    \/ LaunchStage
    \/ NewReturn
    \/ \E k \in 1..MaxStages : ProcRead(k)
    \/ \E k \in 1..MaxStages : ProcExit(k)
    \/ \E s \in 1..MaxStages : status(s)
    \/ \E s \in 1..MaxStages : returncode(s)
    \/ \E s \in 1..MaxStages : check_returncode(s)
    \/ \E s \in 1..MaxStages : stdout(s)
    \/ \E s \in 1..MaxStages : stderr(s)
    \/ \E s \in 1..MaxStages : repr(s)
    \/ CommunicateReturn

Spec == Init /\ [][Next]_vars

\* The operating system keeps running every started process, and a caller
\* blocked in communicate() resumes once its process has exited; the caller is
\* free to make further calls or not.
Fairness ==
    /\ \A k \in 1..MaxStages : WF_vars(ProcRead(k))
    /\ \A k \in 1..MaxStages : WF_vars(ProcExit(k))
    /\ WF_vars(CommunicateReturn)

SpecFair == Spec /\ Fairness

\* ----------------------------------------- run.create_process called directly
\* The classmethod called by itself, with any of its arguments.
Directs ==
    [command : Commands, stdin : {PIPE, NoStream, CallerStream},
     capture_output : BOOLEAN, kwargs : SUBSET {"stdout", "stderr"}]

InitLauncher ==
    /\ args = <<>>
    /\ direct \in Directs
    /\ stdinOpt = "absent"
    /\ pc = "call"
    /\ stdin = direct.stdin
    /\ InitRest

\* run.create_process(command, stdin, cwd, env, shell, capture_output, **kwargs)
CreateProcess ==
    /\ pc = "call"
    /\ LET made == create_process(direct.command, direct.stdin,
                                  direct.capture_output, direct.kwargs)
       IN  IF made.err # NoError
           THEN /\ pc' = "raised"
                /\ raised' = made.err
                /\ procs' = procs
           ELSE /\ pc' = "called"
                /\ raised' = NoError
                /\ procs' = Append(procs, [made.proc EXCEPT !.pid = Len(procs) + 1])
    /\ UNCHANGED <<args, direct, stdinOpt, stdin, obj, lists, stages, _status, result,
                   inLeft, inEnds, cur, ret, calls, commCalls, statusComm, first>>

NextLauncher ==
    \/ CreateProcess
    \/ \E k \in 1..MaxStages : ProcRead(k)
    \/ \E k \in 1..MaxStages : ProcExit(k)

SpecLauncher == InitLauncher /\ [][NextLauncher]_vars

\* ================================================================== claims
StageIds == 1..Len(stages)
ProcOf(s) == procs[stages[s].process]
\* A call has returned to the caller (it is not blocked in communicate()).
Returned(op) == pc = "ready" /\ ret.op = op

\* C1: over any sequence of status / stdout / stderr reads on an object,
\* communicate() is invoked at most once in total, and every later read
\* returns what the first one captured.
C1_CommunicateAtMostOnce ==
    /\ \A s \in StageIds : commCalls[s] <= 1
    /\ Returned("stdout") => ret.text = first[ret.stage].output.out
    /\ Returned("stderr") => ret.text = first[ret.stage].output.err
    /\ Returned("status") => ret.int = first[ret.stage].status.val

\* C2: every status / returncode read of an object returns the same integer
\* as the first, the cached _status never changes once set, and status reads
\* invoke communicate() at most once and do not raise.
C2_StatusIdempotent ==
    /\ [](/\ \A s \in StageIds :
                /\ statusComm[s] <= 1
                /\ _status[s].has => _status[s].val = first[s].status.val
          /\ Returned("status") =>
                /\ ret.int.some
                /\ ret.int = first[ret.stage].status.val
                /\ raised = NoError)
    /\ [][\A s \in StageIds : _status[s].has => _status'[s] = _status[s]]_vars

\* A second status read of the same object has returned, the only
\* communicate() so far being the one of the first read.
C2_Witness ==
    /\ Returned("status")
    /\ calls = 2
    /\ commCalls[ret.stage] = 1
    /\ \A t \in StageIds \ {ret.stage} : commCalls[t] = 0
    /\ ret.int = SomeInt(2)

\* C3: a single command run with default options that writes text T and
\* exits 0 has status 0 and stdout equal to T.
C3_StdoutIsWhatWasWritten ==
    (/\ Len(args) = 1
     /\ stdinOpt = "absent"
     /\ pc = "ready"
     /\ ProcOf(1).state = "exited"
     /\ ProcOf(1).code = 0)
    => /\ ret.op = "status" => ret.int = SomeInt(0)
       /\ ret.op = "stdout" => ret.text = ProcOf(1).wrote

\* C4: for every i > 1 the stdin handed to process i at launch is the
\* readable stdout pipe of process i-1.
C4_StdinIsPreviousStdout ==
    \A i \in 2..Len(procs) :
        /\ procs[i - 1].outPipe
        /\ procs[i].stdin = StdoutOf(i - 1)

\* C5: with a first command that writes M lines and a second that counts the
\* lines of its standard input, stdout of the result is the decimal text of M.
C5_PipedLineCount ==
    (/\ Len(args) = 2
     /\ Returned("stdout")
     /\ ret.stage = result
     /\ IsProg(1, <<"p">>)
     /\ IsProg(2, <<"w">>))
    => ret.text = IntStr(Len(procs[1].argv) - 1) \o <<"\n">>

\* C6: once run(c1, .., cN) has returned, exactly N processes were started,
\* the k-th for ck, and the value returned is the object of cN, whose chain
\* is the N objects in order, the k-th carrying ck.
C6_OneStagePerCommand ==
    result # 0 =>
        /\ Len(args) >= 1
        /\ Len(procs) = Len(args)
        /\ Len(stages) = Len(args)
        /\ result = Len(args)
        /\ lists[stages[result].chain] = [k \in 1..Len(args) |-> k]
        /\ \A k \in 1..Len(args) :
              /\ stages[k].command = args[k]
              /\ stages[k].process = k
              /\ procs[k].pid = stages[k].pid
              /\ procs[k].argv = IF args[k].isStr THEN shlex_split(args[k].text).toks
                                 ELSE args[k].argv

C6_Witness == result # 0 /\ Len(args) = MaxStages /\ MaxStages >= 2

\* C7: a status read returns only once the process of that object has exited
\* and returns its exit code, never None, whatever the earlier processes do.
C7_StatusIsExitCode ==
    Returned("status") =>
        /\ ProcOf(ret.stage).state = "exited"
        /\ ret.int = SomeInt(ProcOf(ret.stage).code)

\* status has returned on the result while an earlier process still runs.
C7_Witness ==
    /\ Returned("status")
    /\ ret.stage = result
    /\ ret.int = SomeInt(2)
    /\ \E j \in 1..(result - 1) : procs[j].state = "running"

\* C8: check_returncode raises CalledProcessError exactly when the status is
\* non-zero, carrying that status and the command of the object; with status
\* zero it returns without raising.
C8_CheckRaisesIffNonZero ==
    Returned("check") =>
        LET s == ret.stage IN
        /\ _status[s].val = SomeInt(ProcOf(s).code)
        /\ (raised # NoError) <=> (ProcOf(s).code # 0)
        /\ raised # NoError =>
              raised = CalledProcessError(SomeInt(ProcOf(s).code), stages[s].command)

C8_Witness ==
    /\ Returned("check")
    /\ raised.type = "CalledProcessError"
    /\ raised.returncode = SomeInt(2)
    /\ raised.cmd = StrCmd(<<"f">>)

\* C9: reading status, returncode, stdout or stderr never raises, also when
\* the process exited non-zero; CalledProcessError comes only from the check.
C9_ReadsNeverRaise ==
    /\ ret.op \in {"status", "stdout", "stderr"} => raised = NoError
    /\ raised.type = "CalledProcessError" => ret.op = "check"

\* status has been read on a process that exited with a non-zero code.
C9_Witness ==
    /\ Returned("status")
    /\ ret.int = SomeInt(1)
    /\ raised = NoError

Unlaunchable == {StrCmd(<<"x">>), StrCmd(<<"p", " ", "'", "a">>)}
FirstUnlaunchable ==
    IF \E k \in 1..Len(args) : args[k] \in Unlaunchable
    THEN CHOOSE k \in 1..Len(args) :
            /\ args[k] \in Unlaunchable
            /\ \A j \in 1..(k - 1) : args[j] \notin Unlaunchable
    ELSE 0

C11_LaunchFailurePropagates ==
    FirstUnlaunchable # 0 =>
        /\ result = 0
        /\ pc \in {"new", "raised"}
        /\ Len(procs) < FirstUnlaunchable
        /\ pc = "raised" =>
              /\ Len(procs) = FirstUnlaunchable - 1
              /\ Len(stages) = FirstUnlaunchable - 1
              /\ raised.type = IF args[FirstUnlaunchable] = StrCmd(<<"x">>)
                               THEN "OSError" ELSE "ValueError"
              /\ \A j \in 1..Len(procs) :
                    /\ procs[j].returncode = NoneInt
                    /\ procs[j].stdinOpen = (procs[j].stdin = PIPE)
                    /\ procs[j].state = "exited" => procs[j].code \in {0} \cup FailCodes

\* The second launch failed while the first process is still running.
C11_Witness ==
    /\ pc = "raised"
    /\ Len(args) = 2
    /\ Len(procs) = 1
    /\ procs[1].state = "running"
    /\ raised.type = "OSError"

\* C12: create_process with capture_output and an explicit stdout or stderr
\* raises ValueError before anything is started; with capture_output and
\* neither, the process is started with stdout and stderr both as pipes.
C12_CaptureConflictRaises ==
    (direct.capture_output /\ pc # "call") =>
        IF direct.kwargs # {}
        THEN /\ pc = "raised"
             /\ raised = Error("ValueError", "capture_output will override stdout/stderr kwargs")
             /\ procs = <<>>
        ELSE pc = "called" =>
                /\ Len(procs) = 1
                /\ procs[1].outPipe
                /\ procs[1].errPipe

\* The conflict was raised for a command that would otherwise have started.
C12_Witness ==
    /\ pc = "raised"
    /\ direct.capture_output
    /\ direct.kwargs = {"stdout"}
    /\ direct.command = StrCmd(<<"w", " ", "l">>)
    /\ procs = <<>>

\* C13: repr of the result of run(c1, .., cN) is the commands in order joined
\* by " | ", an argument list being shown as its words joined by single
\* blanks; computing it reads and waits on no process.
RECURSIVE WordsText(_)
WordsText(words) ==
    IF Len(words) = 1 THEN words[1]
    ELSE WordsText(SubSeq(words, 1, Len(words) - 1)) \o <<" ">> \o words[Len(words)]
CommandText(c) == IF c.isStr THEN c.text ELSE WordsText(c.argv)
RECURSIVE PipelineText(_)
PipelineText(n) ==
    IF n = 1 THEN CommandText(args[1])
    ELSE PipelineText(n - 1) \o <<" ", "|", " ">> \o CommandText(args[n])

C13_ReprJoinsCommands ==
    /\ [](Returned("repr") /\ ret.stage = result => ret.text = PipelineText(Len(args)))
    /\ [][pc = "ready" /\ calls' = calls + 1 /\ ret'.op = "repr" /\ pc' = "ready" =>
            /\ procs' = procs
            /\ commCalls' = commCalls
            /\ _status' = _status]_vars

\* repr of a two-command result, the first command an argument list.
C13_Witness ==
    /\ Returned("repr")
    /\ ret.stage = result
    /\ ret.text = <<"p", " ", "a", " ", "b", " ", "|", " ", "w", " ", "l">>
    /\ \E k \in 1..Len(procs) : procs[k].state = "running"

\* C14: __new__ reads and awaits nothing: while it runs, and when it has just
\* returned, no communicate() or wait() has been made on any process, no
\* object has a cached status, and the processes may all still be running.
C14_ConstructionDoesNotWait ==
    (pc = "new" \/ (pc = "ready" /\ calls = 0)) =>
        \A s \in StageIds :
            /\ ~_status[s].has
            /\ commCalls[s] = 0
            /\ ProcOf(s).returncode = NoneInt
            /\ ProcOf(s).stdinOpen = (ProcOf(s).stdin = PIPE)

\* __new__ has returned and every process it started is still running.
C14_Witness ==
    /\ pc = "ready"
    /\ calls = 0
    /\ Len(procs) = MaxStages
    /\ MaxStages >= 2
    /\ \A k \in 1..Len(procs) : procs[k].state = "running"

\* C15: during and after construction the chain of the k-th object is the
\* objects 1..k in order, ending with itself, held in a list of its own; no
\* object made later ever shows up in it.
C15_ChainIsOwnPrefix ==
    \A k \in StageIds :
        /\ lists[stages[k].chain] = [j \in 1..k |-> j]
        /\ stages[k].chain # 1
        /\ \A m \in StageIds \ {k} : stages[m].chain # stages[k].chain

\* A later object exists and the first object's chain is still itself alone.
C15_Witness ==
    /\ Len(stages) = MaxStages
    /\ MaxStages >= 2
    /\ lists[stages[1].chain] = <<1>>
    /\ lists[stages[Len(stages)].chain][Len(stages)] = Len(stages)

ResultApiStep ==
      pc \in {"ready", "comm"} =>
         /\ stages' = stages
         /\ lists' = lists
         /\ \A k \in 1..Len(procs) :
               procs'[k].pid = procs[k].pid /\ procs'[k].argv = procs[k].argv
         /\ \A s \in StageIds :
               _status'[s] # _status[s] =>
                  /\ ~_status[s].has
                  /\ _status'[s].has
                  /\ pc = "comm"
                  /\ cur.stage = s
                  /\ cur.op \in {"status", "check"}

C17_OnlyStatusChanges == [][ResultApiStep]_vars

\* The result has a cached status, an earlier object of its chain has none.
C17_Witness ==
    /\ pc = "ready"
    /\ calls = MaxCalls
    /\ result >= 2
    /\ _status[result].has
    /\ ~_status[1].has
    /\ commCalls[1] >= 1

\* C18: a read on the result calls communicate() on the process of the last
\* object alone: an object that has not itself been read has no cached status
\* and its process has not been waited on, nor its stdin pipe closed.
C18_ReadTouchesOwnProcessOnly ==
    \A t \in StageIds :
        commCalls[t] = 0 =>
            /\ ~_status[t].has
            /\ ProcOf(t).returncode = NoneInt
            /\ ProcOf(t).stdinOpen = (ProcOf(t).stdin = PIPE)

\* status has returned on the result; the first process has exited but no
\* one has collected it and the first object has no cached status.
C18_Witness ==
    /\ Returned("status")
    /\ ret.stage = result
    /\ result >= 2
    /\ commCalls[1] = 0
    /\ procs[1].state = "exited"
    /\ procs[1].returncode = NoneInt
    /\ ~_status[1].has

\* C19: for run(c1, .., cN) with default options, where every program exits
\* on its own or at end-of-file on its standard input, a status read on the
\* result eventually returns when the processes are scheduled fairly.
C19_StatusReadReturns ==
    (pc = "comm" /\ cur.op = "status" /\ cur.stage = result /\ stdinOpt = "absent")
        ~> (pc = "ready")

====
